---- MODULE Spec2Model ----
(***************************************************************************)
(* A model of rs-fft: the transform buffer (padding, even/odd split), the  *)
(* recursive Cooley-Tukey transform and its inverse (src/src/fft.rs,       *)
(* src/src/lib.rs) and the spectral peak detector (src/src/analysis.rs).   *)
(*                                                                         *)
(* Numbers.  The program computes in f64.  The model computes in the exact *)
(* real numbers the f64 values stand for: every value the transform meets  *)
(* on an input of Gaussian rationals lies in the field generated by        *)
(* cos(2*pi/Order) over the rationals, Order the largest padded length in  *)
(* play.  A real is a numerator in the tower                               *)
(*     K(0) = Z,   K(l) = K(l-1)[b(l)],  b(l)^2 = 2 + b(l-1),  b(0) = 0    *)
(* (b(l) = 2*cos(pi / 2^(l+1))) over a positive integer denominator, kept  *)
(* in lowest terms so that equal reals are equal values.  Rounding is not  *)
(* modelled.                                                               *)
(***************************************************************************)
EXTENDS Integers, Sequences, FiniteSets, TLC

\* Longest Vec<Complex> handed to From / split / fft / ifft.
MaxLen == 4

\* Longest sample vector handed to get_primary_frequencies.
MaxSamples == 10

\* Most sign changes along a sample vector.
MaxChanges == 2

\* Frames the call stack holds before the process dies of stack overflow.
StackLimit == 6

-----------------------------------------------------------------------------
(* Integer helpers *)

Abs(a) == IF a < 0 THEN -a ELSE a

Max(a, b) == IF a < b THEN b ELSE a

RECURSIVE Gcd(_, _)
Gcd(a, b) == IF b = 0 THEN Abs(a) ELSE Gcd(b, a % b)

\* 2^e, the value of (2.0 as f64).powi(e) for the small e in play.
RECURSIVE Pow2(_)
Pow2(e) == IF e <= 0 THEN 1 ELSE 2 * Pow2(e - 1)

\* floor(log2(n)) for n >= 1: (len as f64).log2().floor().
RECURSIVE Log2Floor(_)
Log2Floor(n) == IF n <= 1 THEN 0 ELSE 1 + Log2Floor(n \div 2)

\* n = 2^k for some integer k >= 0 (the mathematical notion).
IsPow2(n) == n >= 1 /\ Pow2(Log2Floor(n)) = n

\* The smallest power of two >= n.
NextPow2(n) == IF IsPow2(n) THEN n ELSE Pow2(Log2Floor(n) + 1)

\* The largest padded length in play, at least 4 so that i is in the field.
Order == Max(4, NextPow2(Max(MaxLen, MaxSamples)))

\* Height of the tower of quadratic extensions holding cos(2*pi/Order).
Level == Log2Floor(Order) - 2

-----------------------------------------------------------------------------
(* Numerators: elements of K(l), an integer at l = 0, a pair of K(l-1) at  *)
(* l > 0 standing for x[1] + x[2]*b(l).                                    *)

RECURSIVE NConst(_, _)
NConst(c, l) == IF l = 0 THEN c ELSE <<NConst(c, l - 1), NConst(0, l - 1)>>

RECURSIVE NAdd(_, _, _)
NAdd(x, y, l) ==
    IF l = 0 THEN x + y
    ELSE <<NAdd(x[1], y[1], l - 1), NAdd(x[2], y[2], l - 1)>>

RECURSIVE NScale(_, _, _)
NScale(x, c, l) ==
    IF l = 0 THEN x * c
    ELSE <<NScale(x[1], c, l - 1), NScale(x[2], c, l - 1)>>

NSub(x, y, l) == NAdd(x, NScale(y, -1, l), l)

\* b(l) as an element of K(l).
Beta(l) == IF l = 0 THEN 0 ELSE <<NConst(0, l - 1), NConst(1, l - 1)>>

RECURSIVE NMul(_, _, _)
NMul(x, y, l) ==
    IF l = 0 THEN x * y
    ELSE LET m  == l - 1
             ac == NMul(x[1], y[1], m)
             bd == NMul(x[2], y[2], m)
             ad == NMul(x[1], y[2], m)
             bc == NMul(x[2], y[1], m)
             \* b(l)^2 = 2 + b(l-1)
             sq == NAdd(NConst(2, m), Beta(m), m)
         IN  <<NAdd(ac, NMul(bd, sq, m), m), NAdd(ad, bc, m)>>

\* The sign (-1, 0, 1) of x as a real number; b(l) > 0 at every l > 0.
RECURSIVE NSign(_, _)
NSign(x, l) ==
    IF l = 0 THEN (IF x > 0 THEN 1 ELSE IF x < 0 THEN -1 ELSE 0)
    ELSE LET m  == l - 1
             sa == NSign(x[1], m)
             sb == NSign(x[2], m)
         IN  IF sb = 0 THEN sa
             ELSE IF sa = 0 \/ sa = sb THEN sb
             ELSE LET sq == NAdd(NConst(2, m), Beta(m), m)
                      \* a^2 - b^2 * b(l)^2 decides |a| against |b| * b(l)
                      d  == NSign(NSub(NMul(x[1], x[1], m),
                                       NMul(NMul(x[2], x[2], m), sq, m), m), m)
                  IN  sa * d

RECURSIVE NGcd(_, _)
NGcd(x, l) == IF l = 0 THEN Abs(x) ELSE Gcd(NGcd(x[1], l - 1), NGcd(x[2], l - 1))

RECURSIVE NDivExact(_, _, _)
NDivExact(x, c, l) ==
    IF l = 0 THEN x \div c
    ELSE <<NDivExact(x[1], c, l - 1), NDivExact(x[2], c, l - 1)>>

-----------------------------------------------------------------------------
(* f64 values as exact reals: [n |-> numerator in K(Level), d |-> Nat].    *)
(* d = 0 marks a non-finite f64 (infinity or NaN).                         *)

RNorm(n, d) ==
    LET g == Gcd(NGcd(n, Level), d)
    IN  [n |-> NDivExact(n, g, Level), d |-> d \div g]

RInt(c) == [n |-> NConst(c, Level), d |-> 1]

NonFinite == [n |-> NConst(0, Level), d |-> 0]

IsFinite(x) == x.d # 0

RAdd(x, y) ==
    IF x.d = 0 \/ y.d = 0 THEN NonFinite
    ELSE RNorm(NAdd(NScale(x.n, y.d, Level), NScale(y.n, x.d, Level), Level), x.d * y.d)

RNeg(x) == [n |-> NScale(x.n, -1, Level), d |-> x.d]

RSub(x, y) == RAdd(x, RNeg(y))

RMul(x, y) ==
    IF x.d = 0 \/ y.d = 0 THEN NonFinite
    ELSE RNorm(NMul(x.n, y.n, Level), x.d * y.d)

\* x / c for an integer-valued f64 c >= 0; division by zero is not finite.
RDivInt(x, c) ==
    IF x.d = 0 \/ c = 0 THEN NonFinite
    ELSE RNorm(x.n, x.d * c)

RSign(x) == NSign(x.n, Level)

\* x > y on finite values; every comparison with a NaN is false.
RGt(x, y) == x.d # 0 /\ y.d # 0 /\ RSign(RSub(x, y)) = 1

-----------------------------------------------------------------------------
(* The complex arithmetic unit (crate::complex). *)

\* Complex::new(re, im)
Complex(re, im) == [re |-> re, im |-> im]

\* complex::ZERO
ZERO == Complex(RInt(0), RInt(0))

\* A Gaussian integer a + b*i, the shape of every input value of the model.
GaussInt(a, b) == Complex(RInt(a), RInt(b))

\* impl Add for Complex
CAdd(x, y) == Complex(RAdd(x.re, y.re), RAdd(x.im, y.im))

\* impl Sub for Complex
CSub(x, y) == Complex(RSub(x.re, y.re), RSub(x.im, y.im))

\* impl Mul for Complex: (a+bi)(c+di) = (ac-bd) + (ad+bc)i
CMul(x, y) ==
    Complex(RSub(RMul(x.re, y.re), RMul(x.im, y.im)),
            RAdd(RMul(x.re, y.im), RMul(x.im, y.re)))

\* The f64 angle sign * 2.0 * PI * (k / n), kept as the fraction of a turn.
Turn(sign, k, n) == [p |-> sign * k, q |-> n]

\* <<2cos((j-1)t), 2cos(j*t)>> for t = 2*pi/Order, by
\* 2cos((j+1)t) = 2cos(t) * 2cos(j*t) - 2cos((j-1)t), with 2cos(t) = b(Level).
RECURSIVE ChebPair(_)
ChebPair(j) ==
    IF j = 0 THEN <<Beta(Level), NConst(2, Level)>>
    ELSE LET p == ChebPair(j - 1)
         IN  <<p[2], NSub(NMul(Beta(Level), p[2], Level), p[1], Level)>>

\* cos(2*pi*j/Order) for every j in 0 .. Order-1.
CosTable == [j \in 0 .. Order - 1 |-> RNorm(ChebPair(j)[2], 2)]

\* The position of the angle theta on the circle cut in Order steps.
Step(theta) == (theta.p * (Order \div theta.q)) % Order

\* exp_i(theta) = cos(theta) + i*sin(theta), with sin(a) = cos(a - pi/2).
exp_i(theta) ==
    Complex(CosTable[Step(theta)],
            CosTable[(Step(theta) + Order - (Order \div 4)) % Order])

\* Complex::mag, sqrt(re^2 + im^2): the non-negative real whose square is sq.
mag(c) == [sq |-> RAdd(RMul(c.re, c.re), RMul(c.im, c.im))]

\* m / (n as f64) on a magnitude.
MagDivInt(m, n) == [sq |-> RDivInt(RDivInt(m.sq, n), n)]

\* a > b on magnitudes (both non-negative).
MagGt(a, b) == RGt(a.sq, b.sq)

\* m > t for a magnitude m and an f64 t.
MagGtReal(m, t) == IF RSign(t) < 0 THEN IsFinite(m.sq) ELSE RGt(m.sq, RMul(t, t))

-----------------------------------------------------------------------------
(* The transform buffer: FFTVec, its conversions and split. *)

\* a & b on usize values.
RECURSIVE BitAnd(_, _)
BitAnd(a, b) ==
    IF a = 0 \/ b = 0 THEN 0
    ELSE 2 * BitAnd(a \div 2, b \div 2) + (IF a % 2 = 1 /\ b % 2 = 1 THEN 1 ELSE 0)

\* vec![ZERO; count]
Zeros(count) == [i \in 1 .. count |-> ZERO]

\* The loop of FFTVec::split over self.data.drain(..).enumerate(), from
\* position i on (position i of the Vec is index i + 1 of the sequence).
RECURSIVE split_from(_, _, _, _)
split_from(data, i, even, odd) ==
    IF i >= Len(data) THEN [even |-> even, odd |-> odd]
    ELSE IF i % 2 = 0
         THEN split_from(data, i + 1, Append(even, data[i + 1]), odd)
         ELSE split_from(data, i + 1, even, Append(odd, data[i + 1]))

\* split with the parity test inverted.
split_parity_inverted(v) ==
    LET r == split_from(v, 0, <<>>, <<>>) IN [even |-> r.odd, odd |-> r.even]

\* FFTVec::split
split(v) == split_from(v, 0, <<>>, <<>>)

\* pad_if_necessary with the exponent one too small (the + 1 forgotten).
pad_if_necessary_no_plus_one(v, overflow_checks) ==
    LET len == Len(v)
    IN  IF len = 0 /\ overflow_checks
        THEN [status |-> "panic", data |-> <<>>]
        ELSE LET is_power_of_2 == IF len = 0 THEN TRUE ELSE BitAnd(len, len - 1) = 0
                 padded_size   == Pow2(Log2Floor(len))
             IN  [status |-> "ok",
                  data   |-> IF ~is_power_of_2 THEN v \o Zeros(padded_size - len) ELSE v]

\* pad_if_necessary.  len - 1 overflows usize at len = 0: with overflow checks
\* (debug builds) the subtraction panics; without them (release builds) it wraps
\* to usize::MAX, and 0 & usize::MAX = 0 passes the empty Vec as a power of two.
pad_if_necessary(v, overflow_checks) ==
    LET len == Len(v)
    IN  IF len = 0 /\ overflow_checks
        THEN [status |-> "panic", data |-> <<>>]
        ELSE LET is_power_of_2 == IF len = 0 THEN TRUE ELSE BitAnd(len, len - 1) = 0
                 next_pow_of_2 == Log2Floor(len) + 1
                 padded_size   == Pow2(next_pow_of_2)
             IN  [status |-> "ok",
                  data   |-> IF ~is_power_of_2 THEN v \o Zeros(padded_size - len) ELSE v]

\* impl From<Vec<Complex>> for FFTVec
FromComplex(v, overflow_checks) == pad_if_necessary(v, overflow_checks)

\* impl From<Vec<f64>> for FFTVec
FromReal(v, overflow_checks) ==
    pad_if_necessary([j \in 1 .. Len(v) |-> Complex(v[j], RInt(0))], overflow_checks)

-----------------------------------------------------------------------------
(* The FFT engine. *)

\* The loop of fft_general with the second store reading result[k] after the
\* first store overwrote it, in place of the saved x_k.
RECURSIVE butterflies_aliased(_, _, _, _)
butterflies_aliased(result, n, inverse, k) ==
    IF k >= n \div 2 THEN result
    ELSE LET w   == IF inverse THEN exp_i(Turn(1, k, n)) ELSE exp_i(Turn(-1, k, n))
             r1  == [result EXCEPT ![k + 1] =
                         CAdd(result[k + 1], CMul(w, result[k + 1 + n \div 2]))]
             r2  == [r1 EXCEPT ![k + 1 + n \div 2] =
                         CSub(r1[k + 1], CMul(w, r1[k + 1 + n \div 2]))]
         IN  butterflies_aliased(r2, n, inverse, k + 1)

\* The loop `for k in 0 .. n/2` of fft_general, from iteration k on.
RECURSIVE butterflies(_, _, _, _)
butterflies(result, n, inverse, k) ==
    IF k >= n \div 2 THEN result
    ELSE LET x_k == result[k + 1]
             w   == IF inverse THEN exp_i(Turn(1, k, n)) ELSE exp_i(Turn(-1, k, n))
             r1  == [result EXCEPT ![k + 1] = CAdd(x_k, CMul(w, result[k + 1 + n \div 2]))]
             r2  == [r1 EXCEPT ![k + 1 + n \div 2] = CSub(x_k, CMul(w, r1[k + 1 + n \div 2]))]
         IN  butterflies(r2, n, inverse, k + 1)

\* What a call of fft_general leaves when a call below it has died.
Died(r, n) == [r EXCEPT !.lens = @ \cup {n}, !.splits = @ \cup {n}]

\* fft_general as the frame-th nested call.  Besides the data it returns, the
\* record keeps what the call tree did: the buffer lengths fft_general was called
\* with (lens), the lengths split was applied to (splits) and the deepest frame
\* reached (depth).  A call beyond StackLimit frames overflows the stack.
RECURSIVE fft_general(_, _, _)
fft_general(vec, inverse, frame) ==
    LET n == Len(vec)
    IN  IF frame > StackLimit
        THEN [status |-> "stack_overflow", data |-> <<>>, lens |-> {n}, splits |-> {},
              depth |-> frame]
        ELSE IF n = 1
        THEN [status |-> "ok", data |-> vec, lens |-> {1}, splits |-> {}, depth |-> frame]
        ELSE LET halves == split(vec)
                 even   == fft_general(halves.even, inverse, frame + 1)
             IN  IF even.status # "ok" THEN Died(even, n)
                 ELSE LET odd == fft_general(halves.odd, inverse, frame + 1)
                      IN  IF odd.status # "ok" THEN Died(odd, n)
                          ELSE [status |-> "ok",
                                data   |-> butterflies(even.data \o odd.data, n, inverse, 0),
                                lens   |-> {n} \cup even.lens \cup odd.lens,
                                splits |-> {n} \cup even.splits \cup odd.splits,
                                depth  |-> Max(even.depth, odd.depth)]

\* The outcome of a call whose conversion into FFTVec panicked.
Panicked == [status |-> "panic", data |-> <<>>, lens |-> {}, splits |-> {}, depth |-> 0]

\* fft, on the FFTVec that vec.into() gave.
fft(into) == IF into.status # "ok" THEN Panicked ELSE fft_general(into.data, FALSE, 0)

\* ifft without the division of every element by n.
ifft_unscaled(into) ==
    IF into.status # "ok" THEN Panicked ELSE fft_general(into.data, TRUE, 0)

\* ifft, on the FFTVec that vec.into() gave.
ifft(into) ==
    IF into.status # "ok" THEN Panicked
    ELSE LET n      == Len(into.data)
             result == fft_general(into.data, TRUE, 0)
         IN  IF result.status # "ok" THEN result
             ELSE [result EXCEPT !.data = [j \in 1 .. Len(@) |->
                                   Complex(RDivInt(@[j].re, n), RDivInt(@[j].im, n))]]

-----------------------------------------------------------------------------
(* The spectral peak detector. *)

\* iter.take(count)
Take(s, count) == SubSeq(s, 1, IF count < Len(s) THEN count ELSE Len(s))

\* The filter_map collecting the components last window first.
RECURSIVE peaks_from_reversed(_, _, _, _)
peaks_from_reversed(freq_domain, bin_size, threshold, k_prev) ==
    IF k_prev + 3 > Len(freq_domain) THEN <<>>
    ELSE LET prev == freq_domain[k_prev + 1]
             curr == freq_domain[k_prev + 2]
             next == freq_domain[k_prev + 3]
             rest == peaks_from_reversed(freq_domain, bin_size, threshold, k_prev + 1)
         IN  IF MagGtReal(curr, threshold) /\ MagGt(curr, prev) /\ MagGt(curr, next)
             THEN rest \o <<[f |-> RMul(RInt(k_prev + 1), bin_size), coeff |-> curr]>>
             ELSE rest

\* The filter_map over freq_domain.windows(3).enumerate(), from window k_prev on.
RECURSIVE peaks_from(_, _, _, _)
peaks_from(freq_domain, bin_size, threshold, k_prev) ==
    IF k_prev + 3 > Len(freq_domain) THEN <<>>
    ELSE LET prev == freq_domain[k_prev + 1]
             curr == freq_domain[k_prev + 2]
             next == freq_domain[k_prev + 3]
             rest == peaks_from(freq_domain, bin_size, threshold, k_prev + 1)
         IN  IF MagGtReal(curr, threshold) /\ MagGt(curr, prev) /\ MagGt(curr, next)
             THEN <<[f |-> RMul(RInt(k_prev + 1), bin_size), coeff |-> curr]>> \o rest
             ELSE rest

\* get_primary_frequencies.  The record keeps the locals n, bin_size and
\* freq_domain and the data of fft(f64_samples) (spectrum) beside the
\* Vec<FrequencyComponent> returned (peaks).
get_primary_frequencies(samples, sample_rate, threshold, overflow_checks) ==
    LET n        == Len(samples)
        bin_size == RDivInt(RInt(sample_rate), n)
        spectrum == fft(FromReal(samples, overflow_checks))
    IN  IF spectrum.status # "ok"
        THEN [status |-> spectrum.status, n |-> n, bin_size |-> bin_size,
              spectrum |-> <<>>, freq_domain |-> <<>>, peaks |-> <<>>]
        ELSE LET freq_domain ==
                     Take([j \in 1 .. Len(spectrum.data) |->
                               MagDivInt(mag(spectrum.data[j]), n)], n \div 2)
             IN  [status |-> "ok", n |-> n, bin_size |-> bin_size,
                  spectrum |-> spectrum.data, freq_domain |-> freq_domain,
                  peaks |-> peaks_from(freq_domain, bin_size, threshold, 0)]

-----------------------------------------------------------------------------
(* The calls the library takes.  Every function of the library is pure, so *)
(* the state is the call made and what it gave.                            *)

VARIABLES
    overflow_checks,  \* the build of the call: TRUE with integer overflow checks
    op,               \* the call made, "none" before any
    input,            \* its Vec argument
    sample_rate,      \* get_primary_frequencies: sample_rate
    threshold,        \* get_primary_frequencies: threshold
    result            \* what the call gave

vars == <<overflow_checks, op, input, sample_rate, threshold, result>>

\* All sequences over S of length lo .. hi.
SeqsOf(S, lo, hi) == UNION {[1 .. k -> S] : k \in lo .. hi}

\* Vec<Complex> arguments.
ComplexVals == {GaussInt(1, 0), GaussInt(2, -1), GaussInt(0, -1), GaussInt(-1, 2)}

ComplexVecs == SeqsOf(ComplexVals, 0, MaxLen)

\* Vec<f64> arguments of fft, and the Vec<i16> samples of the peak detector.
SampleVals == {-1, 1}

RealVecs == SeqsOf({RInt(c) : c \in SampleVals}, 0, MaxLen)

\* The number of positions where v changes sign.
SignChanges(v) == Cardinality({j \in 1 .. Len(v) - 1 : v[j] # v[j + 1]})

\* The sample vectors: square waves of at most MaxChanges edges.
SampleVecs ==
    {v \in SeqsOf({RInt(c) : c \in SampleVals}, 0, MaxSamples) : SignChanges(v) <= MaxChanges}

\* <<sample_rate, threshold>> arguments of the peak detector.
PeakArgs == {<<48, RInt(0)>>, <<48, RDivInt(RInt(1), 2)>>, <<0, RInt(0)>>}

\* The builds that can differ on the argument v: len - 1 overflows at the empty
\* Vec alone, so every other argument is run in one build.
Builds(v) == IF Len(v) = 0 THEN BOOLEAN ELSE {TRUE}

NoResult == [status |-> "none"]

Init ==
    /\ overflow_checks = TRUE
    /\ op = "none"
    /\ input = <<>>
    /\ sample_rate = 0
    /\ threshold = RInt(0)
    /\ result = NoResult

\* let b: FFTVec = v.into() on a Vec<Complex>
IntoFromComplex ==
    \E v \in ComplexVecs : \E oc \in Builds(v) :
        /\ op = "none"
        /\ op' = "from"
        /\ input' = v
        /\ overflow_checks' = oc
        /\ result' = FromComplex(v, oc)
        /\ UNCHANGED <<sample_rate, threshold>>

\* let b: FFTVec = v.into() on a Vec<f64>
IntoFromReal ==
    \E v \in RealVecs : \E oc \in Builds(v) :
        /\ op = "none"
        /\ op' = "from_real"
        /\ input' = v
        /\ overflow_checks' = oc
        /\ result' = FromReal(v, oc)
        /\ UNCHANGED <<sample_rate, threshold>>

\* FFTVec { data: v }.split()
Split ==
    \E v \in ComplexVecs :
        /\ op = "none"
        /\ op' = "split"
        /\ input' = v
        /\ result' = split(v)
        /\ UNCHANGED <<overflow_checks, sample_rate, threshold>>

\* fft(v) on a Vec<Complex>
Fft ==
    \E v \in ComplexVecs : \E oc \in Builds(v) :
        /\ op = "none"
        /\ op' = "fft"
        /\ input' = v
        /\ overflow_checks' = oc
        /\ result' = fft(FromComplex(v, oc))
        /\ UNCHANGED <<sample_rate, threshold>>

\* fft(v) on a Vec<f64>
FftReal ==
    \E v \in RealVecs : \E oc \in Builds(v) :
        /\ op = "none"
        /\ op' = "fft_real"
        /\ input' = v
        /\ overflow_checks' = oc
        /\ result' = fft(FromReal(v, oc))
        /\ UNCHANGED <<sample_rate, threshold>>

\* ifft(v) on a Vec<Complex>
Ifft ==
    \E v \in ComplexVecs : \E oc \in Builds(v) :
        /\ op = "none"
        /\ op' = "ifft"
        /\ input' = v
        /\ overflow_checks' = oc
        /\ result' = ifft(FromComplex(v, oc))
        /\ UNCHANGED <<sample_rate, threshold>>

\* ifft(fft(v).data): the inverse transform of what fft returned.
IfftOfFft ==
    /\ op \in {"fft", "fft_real"}
    /\ result.status = "ok"
    /\ op' = (IF op = "fft" THEN "fft_ifft" ELSE "fft_real_ifft")
    /\ result' = ifft(FromComplex(result.data, overflow_checks))
    /\ UNCHANGED <<overflow_checks, input, sample_rate, threshold>>

\* get_primary_frequencies(samples, sample_rate, threshold)
GetPrimaryFrequencies ==
    \E s \in SampleVecs, a \in PeakArgs : \E oc \in Builds(s) :
        /\ op = "none"
        /\ op' = "peaks"
        /\ input' = s
        /\ sample_rate' = a[1]
        /\ threshold' = a[2]
        /\ overflow_checks' = oc
        /\ result' = get_primary_frequencies(s, a[1], a[2], oc)

Next ==
    \/ IntoFromComplex
    \/ IntoFromReal
    \/ Split
    \/ Fft
    \/ FftReal
    \/ Ifft
    \/ IfftOfFft
    \/ GetPrimaryFrequencies

\* Every call of the library.
Spec == Init /\ [][Next]_vars

NextBuffer == IntoFromComplex \/ IntoFromReal \/ Split

\* The transform buffer alone.
SpecBuffer == Init /\ [][NextBuffer]_vars

NextTransform == Fft \/ FftReal \/ Ifft \/ IfftOfFft

\* The FFT engine alone.
SpecTransform == Init /\ [][NextTransform]_vars

\* The peak detector alone.
SpecPeaks == Init /\ [][GetPrimaryFrequencies]_vars

-----------------------------------------------------------------------------
(* Properties. *)

\* The calls that run the transform.
TransformOps == {"fft", "fft_real", "ifft", "fft_ifft", "fft_real_ifft"}

\* The argument as complex numbers (a Vec<f64> lifted with zero imaginary part).
Lifted ==
    IF op \in {"from_real", "fft_real", "fft_real_ifft", "peaks"}
    THEN [j \in 1 .. Len(input) |-> Complex(input[j], RInt(0))]
    ELSE input

\* P is the padded length of an input of length L >= 1: L itself when L is a
\* power of two, otherwise the smallest power of two greater than L.
IsPaddedLength(P, L) ==
    /\ IsPow2(P)
    /\ P >= L
    /\ IsPow2(L) => P = L
    /\ ~IsPow2(L) => (P > L /\ P \div 2 < L)

\* out is x followed by zeros only.
IsZeroExtension(out, x) ==
    /\ Len(out) >= Len(x)
    /\ \A j \in 1 .. Len(x) : out[j] = x[j]
    /\ \A j \in Len(x) + 1 .. Len(out) : out[j] = ZERO

\* The sum of the complex numbers x[1 .. m].
RECURSIVE CSum(_, _)
CSum(x, m) == IF m = 0 THEN ZERO ELSE CAdd(CSum(x, m - 1), x[m])

\* Bin k of the discrete Fourier transform of x (N = Len(x)):
\* the sum over n in [0, N) of x[n] * e^{-2*pi*i*k*n/N}.
DftBin(x, k) ==
    CSum([j \in 1 .. Len(x) |-> CMul(x[j], exp_i(Turn(-1, (k * (j - 1)) % Len(x), Len(x))))],
         Len(x))

KnownVector == <<GaussInt(1, 0), GaussInt(2, -1), GaussInt(0, -1), GaussInt(-1, 2)>>

KnownSpectrum == <<GaussInt(2, 0), GaussInt(-2, -2), GaussInt(0, -2), GaussInt(4, 4)>>

\* C1: the conversion of a Vec of length L >= 1 into a transform buffer gives
\* a buffer of length L when L is a power of two and of the smallest power of
\* two greater than L otherwise; its first L elements are the input's, in
\* order, and every element after them is ZERO.
C1_Padding ==
    (op \in {"from", "from_real"} /\ Len(input) >= 1) =>
        /\ result.status = "ok"
        /\ IsPaddedLength(Len(result.data), Len(input))
        /\ IsZeroExtension(result.data, Lifted)

\* C1 witness: a Vec of three elements was padded to four.
C1_Witness ==
    /\ op = "from"
    /\ Len(input) = 3
    /\ Len(result.data) = 4
    /\ result.data[4] = ZERO

\* C2: ifft(fft(x)) is the zero-padded extension of x: it has the padded
\* length, its elements are those of x, and the padding elements are ZERO.
C2_RoundTrip ==
    op \in {"fft_ifft", "fft_real_ifft"} =>
        /\ result.status = "ok"
        /\ IsPaddedLength(Len(result.data), Len(input))
        /\ IsZeroExtension(result.data, Lifted)

\* C2 witness: a Vec of three complex numbers, not all real, came back from
\* ifft(fft(x)) with one element of padding.
C2_Witness ==
    /\ op = "fft_ifft"
    /\ Len(input) = 3
    /\ input[2] = GaussInt(2, -1)
    /\ Len(result.data) = 4

\* C3: whenever fft returns, its result has the padded length N of the input
\* and element k is bin k of the discrete Fourier transform of the padded
\* input; bin 0 is the sum of all samples, and the known vector
\* [1, 2-i, -i, -1+2i] gives [2, -2-2i, -2i, 4+4i].
C3_Dft ==
    (op \in {"fft", "fft_real"} /\ result.status = "ok") =>
        LET N == Len(result.data)
            x == Lifted \o Zeros(N - Len(input))
        IN  /\ IsPaddedLength(N, Len(input))
            /\ \A k \in 0 .. N - 1 : result.data[k + 1] = DftBin(x, k)
            /\ result.data[1] = CSum(x, N)
            /\ input = KnownVector => result.data = KnownSpectrum

\* C3 witness: fft of the known vector returned the known spectrum.
C3_Witness ==
    /\ op = "fft"
    /\ input = KnownVector
    /\ result.status = "ok"
    /\ result.data = KnownSpectrum

\* C4: the peak detector uses the padded length N_padded of the transform
\* output for bin_size = sample_rate / N_padded, for each magnitude
\* |X[k]| / N_padded and for the half-spectrum [0, N_padded/2) it scans.
C4_UsesPaddedLength ==
    (op = "peaks" /\ result.status = "ok") =>
        LET N_padded == Len(result.spectrum)
        IN  /\ result.bin_size = RDivInt(RInt(sample_rate), N_padded)
            /\ Len(result.freq_domain) = N_padded \div 2
            /\ \A k \in 1 .. Len(result.freq_domain) :
                   result.freq_domain[k] = MagDivInt(mag(result.spectrum[k]), N_padded)

\* C5: on an empty input fft, ifft and the peak detector fail with an
\* InvalidInput error value.
C5_EmptyInputInvalid ==
    (op \in {"fft", "fft_real", "ifft", "peaks"} /\ Len(input) = 0) =>
        result.status = "InvalidInput"

\* C6: the peak detector called with sample_rate = 0 (on samples that the
\* transform accepts) fails with InvalidInput and returns no components.
C6_ZeroRateInvalid ==
    (op = "peaks" /\ sample_rate = 0 /\ Len(input) >= 1) =>
        result.status = "InvalidInput"

\* The bins of the half-spectrum m that pass the peak test: not the first,
\* not the last, above the threshold and above both neighbours.
PeakBins(m, t) ==
    {k \in 1 .. Len(m) - 2 :
        /\ MagGtReal(m[k + 1], t)
        /\ MagGt(m[k + 1], m[k])
        /\ MagGt(m[k + 1], m[k + 2])}

\* C7: the list the peak detector returns is exactly, in increasing bin
\* index, the bins k with 1 <= k <= H-2 of the half-spectrum m that exceed
\* the threshold and both neighbours, each as f = k * bin_size, coeff = m[k];
\* bin 0 and bin H-1 are never reported.
C7_Peaks ==
    (op = "peaks" /\ result.status = "ok") =>
        LET m == result.freq_domain
            K == PeakBins(m, threshold)
        IN  /\ Len(result.peaks) = Cardinality(K)
            /\ \A k \in K :
                   result.peaks[1 + Cardinality({j \in K : j < k})] =
                       [f |-> RMul(RInt(k), result.bin_size), coeff |-> m[k + 1]]

\* C7 witness: two peaks were reported, the second at a higher frequency, while
\* bin 0 held a non-zero magnitude above the threshold and was left out.
C7_Witness ==
    /\ op = "peaks"
    /\ result.status = "ok"
    /\ Len(result.peaks) = 2
    /\ RGt(result.peaks[2].f, result.peaks[1].f)
    /\ MagGtReal(result.freq_domain[1], threshold)

\* C8: split gives the elements at positions 0, 2, 4, ... as even and those
\* at positions 1, 3, 5, ... as odd, each in the original order; every
\* position goes to exactly one of the two, and an even length N gives two
\* halves of length N/2.
C8_Split ==
    op = "split" =>
        LET N == Len(input)
        IN  /\ Len(result.even) + Len(result.odd) = N
            /\ Len(result.odd) = N \div 2
            /\ \A j \in 1 .. Len(result.even) : result.even[j] = input[2 * j - 1]
            /\ \A j \in 1 .. Len(result.odd) : result.odd[j] = input[2 * j]
            /\ N % 2 = 0 => Len(result.even) = N \div 2

\* C8 witness: the split of a buffer of four elements, two of them distinct
\* neighbours, into two halves of two.
C8_Witness ==
    /\ op = "split"
    /\ Len(input) = 4
    /\ input[1] # input[2]
    /\ Len(result.even) = 2
    /\ Len(result.odd) = 2

\* C9: every call of fft and ifft runs to completion: the recursion reaches
\* the length-1 base case at call depth log2(N) and the call returns a result.
C9_RunsToCompletion ==
    op \in TransformOps =>
        /\ result.status = "ok"
        /\ result.depth = Log2Floor(Len(result.data))

\* C10: every call of fft_general reachable from fft or ifft is on a buffer
\* of length 2^k, k >= 0, and split is only applied to an even length >= 2.
C10_PowerOfTwoCalls ==
    op \in TransformOps =>
        /\ \A n \in result.lens : IsPow2(n)
        /\ \A n \in result.splits : n >= 2 /\ n % 2 = 0

====
